---- MODULE Spec2Model ----
(***************************************************************************)
(* Journal Tree & Redundancy Analysis Engine.                              *)
(*                                                                         *)
(* Spec      : the judgment pipeline, judge_journal.main (full pass) and   *)
(*             fix_judgment_errors.main (targeted re-judgment pass), over  *)
(*             a small file system, with the retry loops of                *)
(*             get_llm_response / get_llm_response_with_retry.             *)
(* SpecTree  : tree reconstruction: judge_journal.build_tree_structure,    *)
(*             update_tree_structure.update_journal_file and the parent    *)
(*             resolution of journal_viz_.main.                            *)
(* SpecRed   : the redundancy analyses: journal_viz_.analyze_code_redundancy, *)
(*             plan_judge.analyze_all_plans and                            *)
(*             run_plan_judge_all.run_plan_judge.                          *)
(* SpecDiff  : journal_viz_.generate_side_by_side_diff over small codes.   *)
(***************************************************************************)
EXTENDS Integers, Sequences, FiniteSets, TLC

\* ------------------------------------------------------------------ bounds
MaxNodes == 2
MaxPasses == 2
MaxTreeNodes == 3
MaxTreeOps == 2
MaxCodeLen == 3

\* -------------------------------------------------------- program constants
\* judge_journal.get_llm_response(max_retries=3)
MaxRetries == 3
\* fix_judgment_errors.get_llm_response_with_retry(max_retries=3)
OuterMaxRetries == 3

\* ------------------------------------------------------------ basic values
AllIds == <<"A", "B", "C", "D", "X">>
NodeIds == {AllIds[i] : i \in 1..MaxNodes}
None == "None"
\* a key the JSON object does not have
Missing == "Missing"

\* Text is a sequence of characters; "\n" is the line break.
NL == "\n"
NoCode == <<"<None>">>

RECURSIVE FirstNL(_, _)
FirstNL(s, i) ==
  IF i > Len(s) THEN 0 ELSE IF s[i] = NL THEN i ELSE FirstNL(s, i + 1)

\* str.splitlines(): lines without their line breaks, no trailing empty line
RECURSIVE SplitLines(_)
SplitLines(s) ==
  IF s = <<>> THEN <<>>
  ELSE LET k == FirstNL(s, 1)
       IN IF k = 0 THEN <<s>>
          ELSE <<SubSeq(s, 1, k - 1)>> \o SplitLines(SubSeq(s, k + 1, Len(s)))

\* (prev_code or "")
OrEmpty(c) == IF c = NoCode THEN <<>> ELSE c

\* "\n".join(difflib.unified_diff(a.splitlines(), b.splitlines(), lineterm=""))
\* : nothing when the line sequences are equal, else two header lines, a
\* hunk header and the changed lines.
UnifiedDiff(prev, cur) ==
  LET a == SplitLines(OrEmpty(prev))
      b == SplitLines(cur)
  IN IF a = b THEN <<>>
     ELSE <<"--- ", "+++ ", "@@">> \o [i \in 1..Len(a) |-> "-"] \o [i \in 1..Len(b) |-> "+"]

\* not text.strip(): every character is white space
IsBlank(t) == \A i \in 1..Len(t) : t[i] \in {" ", NL}

\* a diff that never counts as empty
DiffBlankNever(d) == FALSE

\* not diff.strip()
DiffBlank(d) == d = <<>>

\* ---------------------------------------------------------------- judgments
\* kind "absent": the node has no llm_judgment key; "dict": a JSON object with
\* a status and a reason; "nondict": any other JSON value.
Unjudged == [kind |-> "absent", status |-> "", reason |-> <<>>]
Judg(s, r) == [kind |-> "dict", status |-> s, reason |-> r]
NonDict == [kind |-> "nondict", status |-> "", reason |-> <<>>]

SkipReason == <<"No meaningful code changes or plan.">>
MaxRetriesReason == <<"Max retries exceeded for rate limit">>
UnknownProviderReason == <<"Unknown provider">>
LlmReason == <<"concise explanation">>
\* str(e) of the exception the classifier call raised
RateLimitText == <<"429", "RESOURCE_EXHAUSTED">>
OtherErrorText == <<"500", "INTERNAL">>

\* "429" in text
Has429(text) == \E i \in 1..Len(text) : text[i] = "429"

Skipped == Judg("skipped", SkipReason)

\* judgment.get('status') / step['llm_judgment'].get('status')
StatusOf(j) == IF j.kind = "dict" THEN j.status ELSE None

\* ------------------------------------------------------ the classifier call
\* What one call of the external classifier does: it returns a JSON object
\* with one of the statuses asked for, a JSON object with another status, a
\* JSON value that is no object, or it raises (rate limit, or anything else).
Outcomes == {"aligned", "deviated", "unknown", "nondict", "r429", "rOther"}
Raises(o) == o \in {"r429", "rOther"}
ExcText(o) == IF o = "r429" THEN RateLimitText ELSE OtherErrorText
\* json.loads(resp.text)
Response(o) == IF o = "nondict" THEN NonDict ELSE Judg(o, LlmReason)


\* -------------------------------------------------------------------- nodes
\* A node record of a journal: the fields the engine reads or writes.
Node(id, step, code, plan, parent, children, j) ==
  [id |-> id, step |-> step, code |-> code, plan |-> plan,
   parent |-> parent, parent_id |-> Missing, children |-> children, j |-> j,
   diff_html |-> Missing]

IdIndex(id) == CHOOSE i \in 1..Len(AllIds) : AllIds[i] = id

\* sorted(ids): ascending by identifier
RECURSIVE SortedIds(_)
SortedIds(S) ==
  IF S = {} THEN <<>>
  ELSE LET m == CHOOSE x \in S : \A y \in S : IdIndex(x) <= IdIndex(y)
       IN <<m>> \o SortedIds(S \ {m})

\* an insertion that puts a node before the nodes of equal step: what a sort
\* that is not stable would do
RECURSIVE InsertByStepUnstable(_, _)
InsertByStepUnstable(sorted, n) ==
  IF sorted = <<>> THEN <<n>>
  ELSE IF Head(sorted).step < n.step
       THEN <<Head(sorted)>> \o InsertByStepUnstable(Tail(sorted), n)
       ELSE <<n>> \o sorted

\* steps.sort(key=lambda x: x.get('step', 0)): a stable sort
RECURSIVE InsertByStep(_, _)
InsertByStep(sorted, n) ==
  IF sorted = <<>> THEN <<n>>
  ELSE IF Head(sorted).step <= n.step
       THEN <<Head(sorted)>> \o InsertByStep(Tail(sorted), n)
       ELSE <<n>> \o sorted

RECURSIVE SortByStep(_)
SortByStep(s) ==
  IF s = <<>> THEN <<>>
  ELSE InsertByStep(SortByStep(SubSeq(s, 1, Len(s) - 1)), s[Len(s)])

\* The child -> parent index is a function from child ids to parent ids;
\* the empty index is the empty function.
NoIndex == <<>>

\* judge_journal.build_tree_structure: parent and children of every node are
\* overwritten from the index.
build_tree_structure(steps, node2parent) ==
  [i \in 1..Len(steps) |->
     LET id == steps[i].id
     IN [steps[i] EXCEPT
           !.parent = IF id \in DOMAIN node2parent THEN node2parent[id] ELSE None,
           !.children = SortedIds({c \in DOMAIN node2parent : node2parent[c] = id})]]

\* -------------------------------------------------------------------- files
\* A file holds a JSON value: a bare list of nodes ("list"), an object with a
\* nodes field and perhaps a node2parent index ("dict"), or an object without
\* a nodes field ("bad"). "absent": there is no such file.
Content(shape, ns, n2p) == [shape |-> shape, nodes |-> ns, n2p |-> n2p]
NoFile == Content("absent", <<>>, NoIndex)

\* A path is a sequence of pieces; str.replace(old, new) rewrites every piece
\* equal to old.
StrReplace(path, old, new) ==
  [i \in 1..Len(path) |-> IF path[i] = old THEN new ELSE path[i]]

NoPath == <<>>

\* judge_journal.INPUT_JSON, judge_journal.OUTPUT_DATA
InputJson == <<"journal", ".json">>
OutputData == <<"journal_with_judgements", ".json">>
\* a copy of the journal kept under a name without the .json extension
BackupPath == <<"journal", ".bak">>

\* a side path that is the journal path itself
FixedPathSame(journal_path) == journal_path

\* fixed_path = str(journal_path).replace(".json", "_fixed.json")
FixedPath(journal_path) == StrReplace(journal_path, ".json", "_fixed.json")

\* the paths fix_judgment_errors.py is run on (sys.argv[1])
FixArgs == {OutputData, BackupPath}
Paths == {InputJson, OutputData, BackupPath} \cup {FixedPath(p) : p \in FixArgs}

\* fix_judgment_errors.identify_error_entries: the positions whose judgment
\* is an object with status "error"
RECURSIVE ErrorIndices(_, _)
ErrorIndices(ns, i) ==
  IF i > Len(ns) THEN <<>>
  ELSE (IF ns[i].j.kind = "dict" /\ ns[i].j.status = "error" THEN <<i>> ELSE <<>>)
       \o ErrorIndices(ns, i + 1)

\* every position counted as an error entry
identify_all_entries(ns) == [i \in 1..Len(ns) |-> i]

\* fix_judgment_errors.identify_error_entries lines 63-73
identify_error_entries(ns) == ErrorIndices(ns, 1)

\* fix_judgment_errors.load_journal's second result: the wrapper object
\* (a bare list is wrapped as {"nodes": raw_data})
LoadRaw(c) == [hasNodes |-> TRUE, n2p |-> IF c.shape = "dict" THEN c.n2p ELSE NoIndex]

\* json.dump(raw_data if "nodes" in raw_data else nodes, f)
FixDump(raw_data, ns) ==
  IF raw_data.hasNodes THEN Content("dict", ns, raw_data.n2p)
  ELSE Content("list", ns, NoIndex)


\* ------------------------------------------------------------------- state
VARIABLES
  fs,        \* the files: path -> content
  mode,      \* "idle", or the pass that is running: "full", "fix"
  pc,        \* position in the running pass: "loop" or "call" (in the classifier's retry loop)
  arg,       \* the path the running (or last) pass read
  raw,       \* the wrapper object of the loaded journal (raw_data)
  nodes,     \* the loaded node collection (steps / nodes)
  idx,       \* loop position: in nodes (full pass), in targets (fix pass)
  targets,   \* error_indices of the fix pass
  prevCode,  \* prev_code: of the full pass's loop, of rejudge_entry in the targeted pass
  att,       \* attempt of get_llm_response
  oatt,      \* attempt of get_llm_response_with_retry
  callee,    \* the node position the classifier was last called for (0: none yet)
  called,    \* the node positions the classifier was called for in this pass
  hist,      \* the outcomes of the classifier calls made for callee
  slept,     \* the back-off time slept in the retry loops for callee
  fixed,     \* fixed_count
  failed,    \* failed_count
  exit,      \* how the last pass ended
  report,    \* the <<fixed, failed>> counts the last pass printed, or <<>>
  wrote,     \* the path the last pass wrote, or NoPath
  before,    \* the files as they were when the running (or last) pass started
  passes,    \* passes started so far
  tIndex,    \* tree reconstruction: node2parent of journal.json
  tShape,    \* tree reconstruction: the shape of journal_with_judgements.json
  tNodes,    \* tree reconstruction: the nodes of journal_with_judgements.json
  tData,     \* journal_viz_.main's data after parent resolution (<<>>: not run)
  tOps,      \* the reconstruction runs made so far, each with what it reported
  tRed,      \* journal_viz_.main's code_red_map
  planReport, \* plan_redundancy_report.json, once plan_judge has written it
  tAsked,    \* the plan lists plan_judge handed to the classifier, by parent
  dA,        \* diff renderer: code_a
  dB,        \* diff renderer: code_b
  dOut       \* diff renderer: what generate_side_by_side_diff returned

pvars == <<fs, mode, pc, arg, raw, nodes, idx, targets, prevCode, att, oatt,
           callee, called, hist, slept, fixed, failed, exit, report, wrote,
           before, passes>>
tvars == <<tIndex, tShape, tNodes, tData, tOps, tRed, planReport, tAsked>>
dvars == <<dA, dB, dOut>>
vars == <<pvars, tvars, dvars>>

\* ------------------------------------------------------------ initial files
Codes == {<<>>, <<"a">>, <<"a", NL>>}
Plans == {<<>>, <<" ">>, <<"p">>}
InitJudgments == {Unjudged, Judg("aligned", LlmReason), Judg("error", RateLimitText)}

\* step numbers by file position
Ascending(n) == [i \in 1..n |-> i]
Descending(n) == [i \in 1..n |-> n + 1 - i]
AllEqual(n) == [i \in 1..n |-> 1]

\* Journals that vary in code, plan, judgment and order: bare lists without
\* tree data.
PlainJournals ==
  {Content("list",
           [i \in 1..MaxNodes |->
              Node(AllIds[i], st[i], cd[i], pl[i], None, <<>>, jd[i])],
           NoIndex) :
     st \in {Ascending(MaxNodes), Descending(MaxNodes)},
     cd \in [1..MaxNodes -> Codes],
     pl \in [1..MaxNodes -> Plans],
     jd \in [1..MaxNodes -> InitJudgments]}

\* Judged journals of one more node, in either shape, that vary in which
\* judgments are errors; every node states a plan and every third node
\* changes the code.
ErrorJournals ==
  {Content(shape,
           [i \in 1..MaxNodes + 1 |->
              Node(AllIds[i], i, IF i % 3 = 0 THEN <<>> ELSE <<"a">>, <<"p">>,
                   None, <<>>, jd[i])],
           NoIndex) :
     shape \in {"list", "dict"},
     jd \in [1..MaxNodes + 1 ->
               {Judg("aligned", LlmReason), Judg("error", RateLimitText)}]}

\* the child -> parent indexes over the node ids (self-references and cycles
\* included)
Indexes == UNION {[D -> NodeIds] : D \in SUBSET NodeIds}

\* Journals that vary in order, tree fields and index; every node has the
\* same code and states a plan.
TreeJournals ==
  {Content(IF DOMAIN n2p = {} THEN shape ELSE "dict",
           [i \in 1..MaxNodes |->
              Node(AllIds[i], st[i], <<"a">>, <<"p">>,
                   IF declared /\ i > 1 THEN AllIds[1] ELSE None,
                   IF declared /\ i = 1
                   THEN [k \in 1..MaxNodes - 1 |-> AllIds[k + 1]] ELSE <<>>,
                   jd[i])],
           n2p) :
     shape \in {"list", "dict"},
     st \in {Ascending(MaxNodes), Descending(MaxNodes), AllEqual(MaxNodes)},
     declared \in BOOLEAN,
     n2p \in Indexes,
     jd \in [1..MaxNodes -> {Unjudged, Judg("aligned", LlmReason)}]}

\* an object without a nodes field
BadJournal == Content("bad", <<>>, NoIndex)

NoMap == [pid \in {} |-> <<>>]
NoReport == [written |-> FALSE, judgements |-> NoMap]
NoTree ==
  /\ tIndex = NoIndex /\ tShape = "list" /\ tNodes = <<>> /\ tData = <<>> /\ tOps = <<>>
  /\ tRed = NoMap /\ planReport = NoReport /\ tAsked = NoMap

NoRender == [done |-> FALSE, left |-> <<>>, right |-> <<>>]
NoDiff == dA = NoCode /\ dB = NoCode /\ dOut = NoRender

PipelineIdle(f) ==
  /\ fs = f
  /\ mode = "idle" /\ pc = "loop" /\ arg = InputJson
  /\ raw = LoadRaw(NoFile) /\ nodes = <<>> /\ idx = 1 /\ targets = <<>>
  /\ prevCode = NoCode /\ att = 0 /\ oatt = 0
  /\ callee = 0 /\ called = {} /\ hist = <<>> /\ slept = 0 /\ fixed = 0 /\ failed = 0
  /\ exit = "none" /\ report = <<>> /\ wrote = NoPath /\ before = f
  /\ passes = 0

Idle(f) == PipelineIdle(f) /\ NoDiff

\* journal.json holds a journal; a journal judged by an earlier run is also in
\* journal_with_judgements.json and in a copy kept under a name without the
\* .json extension.
Init ==
  /\ NoTree
  /\ \/ \E j \in PlainJournals \cup TreeJournals \cup {BadJournal} :
          Idle([p \in Paths |-> IF p = InputJson THEN j ELSE NoFile])
     \/ \E j \in ErrorJournals :
          Idle([p \in Paths |-> IF p \in {InputJson, OutputData, BackupPath}
                                 THEN j ELSE NoFile])

\* --------------------------------------------------- judge_journal.main
\* lines 98-125: read INPUT_JSON, reject an unknown shape, sort by step
StartFull ==
  /\ mode = "idle" /\ passes < MaxPasses
  /\ fs[InputJson].shape # "absent"
  /\ UNCHANGED <<tvars, dvars>>
  /\ passes' = passes + 1
  /\ arg' = InputJson /\ before' = fs
  /\ report' = <<>> /\ wrote' = NoPath
  /\ targets' = <<>> /\ fixed' = 0 /\ failed' = 0
  /\ pc' = "loop" /\ att' = 0 /\ oatt' = 0 /\ idx' = 1 /\ prevCode' = NoCode
  /\ callee' = 0 /\ called' = {} /\ hist' = <<>> /\ slept' = 0
  /\ UNCHANGED fs
  /\ LET c == fs[InputJson]
     IN IF c.shape = "bad"
        THEN /\ exit' = "format_error" /\ mode' = "idle"
             /\ nodes' = <<>> /\ raw' = LoadRaw(NoFile)
        ELSE /\ exit' = "running" /\ mode' = "full"
             /\ nodes' = SortByStep(c.nodes)
             /\ raw' = LoadRaw(c)

\* the process dies on an uncaught exception: nothing is written
Crash ==
  /\ mode' = "idle" /\ exit' = "crash" /\ pc' = "loop"
  /\ UNCHANGED <<fs, arg, raw, nodes, idx, targets, prevCode, att, oatt,
                 fixed, failed, report, wrote, before, passes>>

\* lines 156-157: step['llm_judgment'] = judgment; prev_code = curr_code
FullRecord(judgment) ==
  /\ nodes' = [nodes EXCEPT ![idx].j = judgment]
  /\ prevCode' = nodes[idx].code
  /\ idx' = idx + 1
  /\ pc' = "loop" /\ mode' = mode /\ exit' = exit
  /\ UNCHANGED <<fs, arg, raw, targets, att, oatt, fixed, failed, report,
                 wrote, before, passes>>

\* the skip removed, every node judged again ("remove check to force re-run")
AlreadyJudgedForce(step) == FALSE

\* line 128: 'llm_judgment' in step and step['llm_judgment'].get('status') != 'error'
AlreadyJudged(step) == step.j.kind = "dict" /\ step.j.status # "error"

\* lines 126-144: one iteration of the loop, up to the classifier call
FullStep ==
  /\ mode = "full" /\ pc = "loop" /\ idx <= Len(nodes)
  /\ UNCHANGED <<tvars, dvars>>
  /\ LET step == nodes[idx]
     IN IF step.j.kind = "nondict"
        THEN Crash /\ UNCHANGED <<callee, called, hist, slept>>
        ELSE IF AlreadyJudged(step)
        THEN /\ prevCode' = step.code /\ idx' = idx + 1
             /\ UNCHANGED <<callee, called, hist, slept>>
             /\ UNCHANGED <<fs, mode, pc, arg, raw, nodes, targets, att, oatt,
                            fixed, failed, exit, report, wrote, before, passes>>
        ELSE IF DiffBlank(UnifiedDiff(prevCode, step.code)) \/ IsBlank(step.plan)
        THEN FullRecord(Skipped) /\ UNCHANGED <<callee, called, hist, slept>>
        ELSE /\ pc' = "call" /\ att' = 0 /\ oatt' = 0
             /\ callee' = idx /\ called' = called \cup {idx}
             /\ hist' = <<>> /\ slept' = 0
             /\ UNCHANGED <<fs, mode, arg, raw, nodes, idx, targets, prevCode,
                            fixed, failed, exit, report, wrote, before, passes>>

\* lines 159-168: rebuild the tree from the index, write OUTPUT_DATA as a list
FinishFull ==
  /\ mode = "full" /\ pc = "loop" /\ idx > Len(nodes)
  /\ UNCHANGED <<tvars, dvars>>
  /\ LET final == IF DOMAIN raw.n2p # {}
                  THEN build_tree_structure(nodes, raw.n2p) ELSE nodes
     IN /\ nodes' = final
        /\ fs' = [fs EXCEPT ![OutputData] = Content("list", final, NoIndex)]
  /\ mode' = "idle" /\ exit' = "saved" /\ wrote' = OutputData
  /\ UNCHANGED <<pc, arg, raw, idx, targets, prevCode, att, oatt, callee,
                 called, hist, slept, fixed, failed, report, before, passes>>


\* --------------------------------------------- fix_judgment_errors.main
\* lines 117-142: load the journal, find the error entries
StartFix(journal_path) ==
  /\ mode = "idle" /\ passes < MaxPasses
  /\ fs[journal_path].shape # "absent"
  /\ UNCHANGED <<tvars, dvars>>
  /\ passes' = passes + 1
  /\ arg' = journal_path /\ before' = fs
  /\ report' = <<>> /\ wrote' = NoPath
  /\ fixed' = 0 /\ failed' = 0
  /\ pc' = "loop" /\ att' = 0 /\ oatt' = 0 /\ idx' = 1 /\ prevCode' = NoCode
  /\ callee' = 0 /\ called' = {} /\ hist' = <<>> /\ slept' = 0
  /\ UNCHANGED fs
  /\ LET c == fs[journal_path]
     IN IF c.shape = "bad"
        THEN /\ exit' = "format_error" /\ mode' = "idle"
             /\ nodes' = <<>> /\ raw' = LoadRaw(NoFile) /\ targets' = <<>>
        ELSE /\ nodes' = c.nodes
             /\ raw' = LoadRaw(c)
             /\ targets' = identify_error_entries(c.nodes)
             /\ IF identify_error_entries(c.nodes) = <<>>
                THEN exit' = "no_errors" /\ mode' = "idle"
                ELSE exit' = "running" /\ mode' = "fix"

\* lines 150-164: store the new judgment and count it; reading the status of
\* a judgment that is no object raises, which the loop catches and counts
FixRecord(new_judgment) ==
  /\ nodes' = [nodes EXCEPT ![targets[idx]].j = new_judgment]
  /\ IF new_judgment.kind = "nondict" \/ StatusOf(new_judgment) = "error"
     THEN failed' = failed + 1 /\ fixed' = fixed
     ELSE fixed' = fixed + 1 /\ failed' = failed
  /\ idx' = idx + 1
  /\ pc' = "loop" /\ mode' = mode /\ exit' = exit
  /\ UNCHANGED <<fs, arg, raw, targets, att, oatt, report, wrote,
                 before, passes>>

\* lines 139-142: prev_codes[i] = nodes[i-1].get('code', '') if i > 0 else None
PrevCodeOf(ns, i) == IF i > 1 THEN ns[i - 1].code ELSE NoCode

\* lines 144-149 and rejudge_entry lines 80-92: one iteration of the loop, up
\* to the classifier call
FixStep ==
  /\ mode = "fix" /\ pc = "loop" /\ idx <= Len(targets)
  /\ UNCHANGED <<tvars, dvars>>
  /\ LET node == nodes[targets[idx]]
         prev_code == PrevCodeOf(nodes, targets[idx])
     IN IF DiffBlank(UnifiedDiff(prev_code, node.code)) \/ IsBlank(node.plan)
        THEN /\ FixRecord(Skipped) /\ prevCode' = prev_code
             /\ UNCHANGED <<callee, called, hist, slept>>
        ELSE /\ pc' = "call" /\ att' = 0 /\ oatt' = 0
             /\ prevCode' = prev_code
             /\ callee' = targets[idx] /\ called' = called \cup {targets[idx]}
             /\ hist' = <<>> /\ slept' = 0
             /\ UNCHANGED <<fs, mode, arg, raw, nodes, idx, targets,
                            fixed, failed, exit, report, wrote, before, passes>>

\* lines 166-187: nothing fixed: return; some still failing: write the side
\* file; all fixed: overwrite the journal
FinishFix ==
  /\ mode = "fix" /\ pc = "loop" /\ idx > Len(targets)
  /\ UNCHANGED <<tvars, dvars>>
  /\ mode' = "idle"
  /\ IF fixed = 0
     THEN exit' = "none_fixed" /\ report' = <<>> /\ wrote' = NoPath /\ fs' = fs
     ELSE IF failed > 0
     THEN /\ exit' = "partial" /\ report' = <<fixed, failed>>
          /\ wrote' = FixedPath(arg)
          /\ fs' = [fs EXCEPT ![FixedPath(arg)] = FixDump(raw, nodes)]
     ELSE /\ exit' = "all_fixed" /\ report' = <<fixed, failed>>
          /\ wrote' = arg
          /\ fs' = [fs EXCEPT ![arg] = FixDump(raw, nodes)]
  /\ UNCHANGED <<pc, arg, raw, nodes, idx, targets, prevCode, att, oatt,
                 callee, called, hist, slept, fixed, failed, before, passes>>

\* ---------------------------------------------------- the classifier call
\* an except clause that retries whatever was raised
RetryInnerAny(o, attempt) == Raises(o) /\ attempt < MaxRetries - 1

\* judge_journal.get_llm_response lines 47-55: what the except clause does
\* with an exception raised on attempt `attempt`: TRUE to sleep and retry
RetryInner(o, attempt) ==
  Raises(o) /\ Has429(ExcText(o)) /\ attempt < MaxRetries - 1

\* an exception handed on as if it were the classifier's answer
InnerResultAsResponse(o) == Response(o)

\* judge_journal.get_llm_response: what it returns when the loop ends on o
InnerResult(o) == IF Raises(o) THEN Judg("error", ExcText(o)) ELSE Response(o)

\* fix_judgment_errors.get_llm_response_with_retry lines 33-38: TRUE to sleep
\* and call get_llm_response again
RetryOuter(result) ==
  result.kind = "dict" /\ result.status = "error" /\ Has429(result.reason)

\* a back-off that grows linearly
WaitTimeLinear(attempt) == 2 * attempt

\* wait_time = 2 ** attempt
WaitTime(attempt) == 2 ^ attempt

\* One call of the classifier and what the retry loops do with its outcome:
\* sleep and call again, or hand a judgment to the pass.
Classify ==
  /\ mode \in {"full", "fix"} /\ pc = "call"
  /\ UNCHANGED <<tvars, dvars>>
  /\ \E o \in Outcomes :
       LET inner == RetryInner(o, att)
           result == InnerResult(o)
           outer == mode = "fix" /\ ~inner /\ RetryOuter(result)
       IN /\ hist' = Append(hist, o)
          /\ slept' = slept + (IF inner THEN WaitTime(att)
                               ELSE IF outer THEN WaitTime(oatt) ELSE 0)
          /\ UNCHANGED <<callee, called>>
          /\ IF inner
             THEN /\ att' = att + 1
                  /\ UNCHANGED <<fs, mode, pc, arg, raw, nodes, idx, targets,
                                 prevCode, oatt, fixed, failed, exit, report,
                                 wrote, before, passes>>
             ELSE IF mode = "full"
             THEN IF result.kind = "nondict" THEN Crash ELSE FullRecord(result)
             ELSE IF outer
             THEN IF oatt + 1 < OuterMaxRetries
                  THEN /\ oatt' = oatt + 1 /\ att' = 0
                       /\ UNCHANGED <<fs, mode, pc, arg, raw, nodes, idx,
                                      targets, prevCode, fixed, failed, exit,
                                      report, wrote, before, passes>>
                  ELSE FixRecord(Judg("error", MaxRetriesReason)) /\ UNCHANGED prevCode
             ELSE FixRecord(result) /\ UNCHANGED prevCode

\* ------------------------------------------------------------ specification
Next ==
  \/ StartFull
  \/ FullStep
  \/ FinishFull
  \/ \E p \in FixArgs : StartFix(p)
  \/ FixStep
  \/ FinishFix
  \/ Classify

Spec == Init /\ [][Next]_vars


\* ------------------------------------------------------------ diff renderer
\* One line of difflib.ndiff's output: a two-character prefix and the line.
DiffLine(prefix, content) == [prefix |-> prefix, content |-> content]
Occurs(x, q) == \E k \in 1..Len(q) : q[k] = x
\* two different lines close enough for ndiff to pair them and add "? " hints
Similar(x, y) == x # y /\ \E k \in 1..Len(x) : Occurs(x[k], y)

\* difflib.ndiff(lines_a, lines_b): every line of a that b lacks comes out as
\* "- ", every line of b that a lacks as "+ ", a common line as "  ", and a
\* pair of similar lines as "- ", "? ", "+ ", "? "
RECURSIVE Ndiff(_, _)
Ndiff(a, b) ==
  IF a = <<>> THEN [k \in 1..Len(b) |-> DiffLine("+ ", b[k])]
  ELSE IF b = <<>> THEN [k \in 1..Len(a) |-> DiffLine("- ", a[k])]
  ELSE IF Head(a) = Head(b)
  THEN <<DiffLine("  ", Head(a))>> \o Ndiff(Tail(a), Tail(b))
  ELSE IF Occurs(Head(a), Tail(b))
  THEN <<DiffLine("+ ", Head(b))>> \o Ndiff(a, Tail(b))
  ELSE IF Similar(Head(a), Head(b))
  THEN <<DiffLine("- ", Head(a)), DiffLine("? ", <<"^">>),
         DiffLine("+ ", Head(b)), DiffLine("? ", <<"^">>)>>
       \o Ndiff(Tail(a), Tail(b))
  ELSE <<DiffLine("- ", Head(a))>> \o Ndiff(Tail(a), b)

\* line[2:].replace("&", "&amp;").replace("<", "&lt;").replace(">", "&gt;")
Escape(content) ==
  [k \in 1..Len(content) |->
     IF content[k] = "&" THEN "&amp;"
     ELSE IF content[k] = "<" THEN "&lt;"
     ELSE IF content[k] = ">" THEN "&gt;"
     ELSE content[k]]

\* one <div class="diff-row ..."> element
Row(class, content) == [class |-> class, content |-> content]
EmptyRow == Row("empty", <<"&nbsp;">>)

\* journal_viz_.generate_side_by_side_diff lines 95-101: the prefixes that
\* add a row; a "? " line adds none
Rendered(line) == line.prefix \in {"  ", "- ", "+ "}

\* html_a: the rows of the left column ("".join keeps them in order)
html_a(diff) ==
  LET shown == SelectSeq(diff, Rendered)
  IN [k \in 1..Len(shown) |->
        IF shown[k].prefix = "  " THEN Row("", Escape(shown[k].content))
        ELSE IF shown[k].prefix = "- " THEN Row("diff-removed", Escape(shown[k].content))
        ELSE EmptyRow]

IsAdded(line) == line.prefix \in {"  ", "+ "}
\* a right column without the place holders for removed lines
html_b_dense(diff) ==
  LET shown == SelectSeq(diff, IsAdded)
  IN [k \in 1..Len(shown) |->
        IF shown[k].prefix = "  " THEN Row("", Escape(shown[k].content))
        ELSE Row("diff-added", Escape(shown[k].content))]

\* html_b: the rows of the right column
html_b(diff) ==
  LET shown == SelectSeq(diff, Rendered)
  IN [k \in 1..Len(shown) |->
        IF shown[k].prefix = "  " THEN Row("", Escape(shown[k].content))
        ELSE IF shown[k].prefix = "- " THEN EmptyRow
        ELSE Row("diff-added", Escape(shown[k].content))]

\* journal_viz_.generate_side_by_side_diff lines 85-103
generate_side_by_side_diff(code_a, code_b) ==
  LET diff == Ndiff(SplitLines(OrEmpty(code_a)), SplitLines(OrEmpty(code_b)))
  IN [left |-> html_a(diff), right |-> html_b(diff)]

\* ===================================================== tree reconstruction
TreeIds == {AllIds[i] : i \in 1..MaxTreeNodes}
\* an id no node has
Dangling == AllIds[5]
\* the children key is absent
MissingList == <<Missing>>

\* dict.get(key, default)
GetOr(v, default) == IF v = Missing THEN default ELSE v
\* the truth value of an id-valued field
Truthy(v) == v \notin {Missing, None, ""}

\* update_tree_structure.update_journal_file lines 96-109: the parent field
\* and whether it counts as a change
UpdateParent(node, node2parent) ==
  IF node.id \in DOMAIN node2parent
  THEN IF GetOr(node.parent, None) # node2parent[node.id]
       THEN <<node2parent[node.id], 1>> ELSE <<node.parent, 0>>
  ELSE IF GetOr(node.parent, None) # None
       THEN <<None, 1>> ELSE <<node.parent, 0>>

\* a children update that rewrites the list and counts a change every time
UpdateChildrenAlways(node, node2parent) ==
  <<SortedIds({c \in DOMAIN node2parent : node2parent[c] = node.id}), 1>>

\* lines 111-125: the children field and whether it counts as a change
UpdateChildren(node, node2parent) ==
  LET kids == {c \in DOMAIN node2parent : node2parent[c] = node.id}
  IN IF kids # {}
     THEN IF (IF node.children = MissingList THEN <<>> ELSE node.children)
               # SortedIds(kids)
          THEN <<SortedIds(kids), 1>> ELSE <<node.children, 0>>
     ELSE IF node.children = MissingList THEN <<<<>>, 0>>
          ELSE IF node.children # <<>> THEN <<<<>>, 1>>
          ELSE <<node.children, 0>>

RECURSIVE SumSeq(_)
SumSeq(q) == IF q = <<>> THEN 0 ELSE Head(q) + SumSeq(Tail(q))

\* update_tree_structure.update_journal_file lines 78-125: the nodes after the
\* loop and changes_made
update_journal_file(judged_nodes, node2parent) ==
  [nodes |->
     [i \in 1..Len(judged_nodes) |->
        [judged_nodes[i] EXCEPT
           !.parent = UpdateParent(judged_nodes[i], node2parent)[1],
           !.children = UpdateChildren(judged_nodes[i], node2parent)[1]]],
   changes |->
     SumSeq([i \in 1..Len(judged_nodes) |->
               UpdateParent(judged_nodes[i], node2parent)[2]
               + UpdateChildren(judged_nodes[i], node2parent)[2]])]

SuperRoot == "SUPER_ROOT"
\* journal_viz_.main line 280: the synthetic root
SuperRootNode ==
  [id |-> SuperRoot, step |-> 0, code |-> <<>>, plan |-> <<>>, parent |-> Missing,
   parent_id |-> None, children |-> MissingList, j |-> Unjudged,
   diff_html |-> Missing]

\* a resolution that does not look the parent up among the loaded ids
VizParentIdUnchecked(n, ids) ==
  LET pid == IF Truthy(n.parent_id) THEN n.parent_id ELSE n.parent
  IN IF ~Truthy(pid) THEN SuperRoot ELSE pid

\* the parent reference as the file has it, with no fallback
VizParentIdAsRead(n, ids) == IF Truthy(n.parent_id) THEN n.parent_id ELSE n.parent

\* journal_viz_.main lines 262-266: pid = n.get('parent_id') or n.get('parent')
VizParentId(n, ids) ==
  LET pid == IF Truthy(n.parent_id) THEN n.parent_id ELSE n.parent
  IN IF ~Truthy(pid) \/ pid \notin ids THEN SuperRoot ELSE pid

\* journal_viz_.main lines 267-268: the diff of a node against its parent;
\* id_to_node.get(n['parent_id'], {}).get('code', "")
VizDiff(data, n, ids) ==
  LET pid == VizParentId(n, ids)
      p_code == IF pid \in ids
                THEN data[CHOOSE i \in 1..Len(data) : data[i].id = pid].code
                ELSE <<>>
  IN generate_side_by_side_diff(p_code, n.code)

\* journal_viz_.main lines 259-280: resolve every node's parent_id, render its
\* diff, then put the synthetic root first
VizResolve(data) ==
  LET ids == {data[i].id : i \in 1..Len(data)}
  IN <<SuperRootNode>>
     \o [i \in 1..Len(data) |->
           [data[i] EXCEPT !.parent_id = VizParentId(data[i], ids),
                           !.diff_html = VizDiff(data, data[i], ids)]]

\* ------------------------------------------------------ redundancy analyses
Whitespace == {" ", NL}
Count(code_str, token) == Cardinality({k \in 1..Len(code_str) : code_str[k] = token})
\* ast.parse, as far as the codes of this model go: a code parses unless its
\* parentheses do not pair up
Parses(code_str) == Count(code_str, "(") = Count(code_str, ")")
IsCodeToken(t) == t \notin Whitespace

\* journal_viz_.get_ast_logic: the dump of the syntax tree, which knows no
\* layout, or the text itself when it does not parse
get_ast_logic(code_str) ==
  IF Parses(code_str) THEN <<"Module">> \o SelectSeq(code_str, IsCodeToken)
  ELSE code_str

\* a group of one counts as a duplicate
IsDuplicateAny(g) == Len(g) >= 1
\* journal_viz_.analyze_code_redundancy line 81: len(g) > 1
IsDuplicate(g) == Len(g) > 1

\* a set of list positions in file order
RECURSIVE InOrder(_)
InOrder(S) ==
  IF S = {} THEN <<>>
  ELSE LET m == CHOOSE x \in S : \A y \in S : x <= y
       IN <<m>> \o InOrder(S \ {m})

\* the children's ids grouped by the text of their code as it stands
FingerprintGroupsByText(children) ==
  LET firsts == InOrder({k \in 1..Len(children) :
                             \A m \in 1..k - 1 : children[m].code # children[k].code})
  IN [g \in 1..Len(firsts) |->
        LET members == InOrder({k \in 1..Len(children) :
                                  children[k].code = children[firsts[g]].code})
        IN [m \in 1..Len(members) |-> children[members[m]].id]]

\* journal_viz_.analyze_code_redundancy lines 76-80: the children's ids
\* grouped by fingerprint, groups in order of first appearance
FingerprintGroups(children) ==
  LET fp(k) == get_ast_logic(children[k].code)
      firsts == InOrder({k \in 1..Len(children) :
                             \A m \in 1..k - 1 : fp(m) # fp(k)})
  IN [g \in 1..Len(firsts) |->
        LET members == InOrder({k \in 1..Len(children) : fp(k) = fp(firsts[g])})
        IN [m \in 1..Len(members) |-> children[members[m]].id]]

\* journal_viz_.analyze_code_redundancy lines 67-83
analyze_code_redundancy(data) ==
  LET pids == {data[i].parent_id : i \in 1..Len(data)} \ {None, Missing, "", SuperRoot}
      siblings(pid) ==
        LET at == InOrder({i \in 1..Len(data) : data[i].parent_id = pid})
        IN [k \in 1..Len(at) |-> data[at[k]]]
      duplicates(pid) == SelectSeq(FingerprintGroups(siblings(pid)), IsDuplicate)
  IN [pid \in {q \in pids : Len(siblings(q)) >= 2 /\ duplicates(q) # <<>>} |->
        duplicates(pid)]

\* sorted(step_group)
RECURSIVE InsertInt(_, _)
InsertInt(q, x) ==
  IF q = <<>> THEN <<x>>
  ELSE IF x < Head(q) THEN <<x>> \o q
  ELSE <<Head(q)>> \o InsertInt(Tail(q), x)
RECURSIVE SortInts(_)
SortInts(q) == IF q = <<>> THEN <<>> ELSE InsertInt(SortInts(Tail(q)), Head(q))

\* plan_judge.analyze_all_plans lines 112-113 and 121-123: the children of a
\* parent, in file order, and the parents the classifier is asked about
PlanChildren(data, pid) ==
  LET at == InOrder({i \in 1..Len(data) : GetOr(data[i].parent, None) = pid})
  IN [k \in 1..Len(at) |-> data[at[k]]]
PlanParents(data) ==
  {pid \in {GetOr(data[i].parent, None) : i \in 1..Len(data)} :
     Truthy(pid) /\ Len(PlanChildren(data, pid)) >= 2}

\* the plan key is absent
NoPlan == <<Missing>>
Placeholder == <<"No plan provided">>
\* plan_judge.analyze_all_plans line 129:
\* plans = [c.get('plan', 'No plan provided') for c in children]
PlanTexts(children) ==
  [k \in 1..Len(children) |->
     IF children[k].plan = NoPlan THEN Placeholder ELSE children[k].plan]

\* what judge_plans_with_gemini / _openai may return for two or more plans:
\* the parsed JSON of the classifier's answer, groups of 0-based indexes, or
\* [] when the call raised
PlanResponses ==
  {<<>>, <<<<0, 1>>>>, <<<<1, 0>>>>, <<<<0>>>>, <<<<>>>>, <<<<0, 9>>>>, <<<<0, -1>>>>}
\* children[idx] raises IndexError unless -len(children) <= idx < len(children)
InRange(groups, children) ==
  \A g \in 1..Len(groups) :
    \A k \in 1..Len(groups[g]) :
      -Len(children) <= groups[g][k] /\ groups[g][k] < Len(children)
\* children[idx]: 0-based, a negative index counts from the end
Item(children, index) ==
  IF index < 0 THEN children[Len(children) + index + 1] ELSE children[index + 1]

\* the classifier's indexes written out as they came
StepGroupsAsIndexes(groups, children) == groups

\* plan_judge.analyze_all_plans lines 136-139: indexes mapped to step numbers
StepGroups(groups, children) ==
  [g \in 1..Len(groups) |->
     SortInts([k \in 1..Len(groups[g]) |-> Item(children, groups[g][k]).step])]

\* plan_judge.analyze_all_plans lines 111-121: parent_map keeps its keys in
\* order of first appearance, and the loop stops at the first parent whose
\* answer raises
FirstChildAt(data, pid) ==
  CHOOSE i \in 1..Len(data) :
    /\ GetOr(data[i].parent, None) = pid
    /\ \A k \in 1..i - 1 : GetOr(data[k].parent, None) # pid
Raising(data, groups) ==
  {pid \in DOMAIN groups : ~InRange(groups[pid], PlanChildren(data, pid))}
AskedParents(data, groups) ==
  {pid \in DOMAIN groups :
     \A q \in Raising(data, groups) : FirstChildAt(data, pid) <= FirstChildAt(data, q)}

\* plan_judge.analyze_all_plans lines 121-142
all_judgements(data, groups) ==
  [pid \in {q \in DOMAIN groups : StepGroups(groups[q], PlanChildren(data, q)) # <<>>} |->
     StepGroups(groups[pid], PlanChildren(data, pid))]

\* ------------------------------------------------------------ initial trees
\* the child -> parent indexes journal.json may hold: a node may map to one of
\* the first two nodes, to itself or to an id that is no node, and an id that
\* is no node may be a child of the first node
TreeIndexes ==
  LET OverNodes ==
        UNION {{f \in [D -> TreeIds \cup {Dangling}] :
                  \A c \in D : f[c] \in {AllIds[1], AllIds[2], c, Dangling}} :
               D \in SUBSET TreeIds}
  IN OverNodes
     \cup {[c \in DOMAIN f \cup {Dangling} |-> IF c = Dangling THEN AllIds[1] ELSE f[c]] :
             f \in OverNodes}

\* the parents the judged nodes declare to begin with: none, every node under
\* the first, or the second node under itself or under an id that is no node
DeclaredParents ==
  {NoIndex, [c \in TreeIds \ {AllIds[1]} |-> AllIds[1]]}
  \cup {[c \in {AllIds[2]} |-> v] : v \in {AllIds[2], Dangling}}

\* how the judged nodes hold it: under the `parent` key with or without a
\* children list, or in the old format under `parent_id`; in a bare list or
\* under the nodes field of an object
Formats ==
  {<<"parent", TRUE, "list">>, <<"parent", FALSE, "dict">>, <<"parent_id", FALSE, "list">>}

\* a judged node that declares its parent under the `parent` key (or, in the
\* old format, under `parent_id`), with or without a children list
TreeNode(i, declared, format, withChildren) ==
  LET id == AllIds[i]
      p == IF id \in DOMAIN declared THEN declared[id] ELSE None
  IN [Node(id, i, <<>>, <<"p">>,
           IF format = "parent" THEN p ELSE Missing,
           IF withChildren
           THEN SortedIds({c \in DOMAIN declared : declared[c] = id})
           ELSE MissingList,
           Judg("aligned", LlmReason))
      EXCEPT !.parent_id = IF format = "parent_id" THEN p ELSE Missing]

IdlePipeline == Idle([p \in Paths |-> NoFile])

InitTree ==
  /\ IdlePipeline
  /\ tIndex \in TreeIndexes
  /\ \/ \E declared \in DeclaredParents, format \in Formats :
          /\ tShape = format[3]
          /\ tNodes = [i \in 1..MaxTreeNodes |->
                         TreeNode(i, declared, format[1], format[2])]
     \/ tShape = "bad" /\ tNodes = <<>>
  /\ tData = <<>>
  /\ tOps = <<>>
  /\ tRed = NoMap
  /\ planReport = NoReport
  /\ tAsked = NoMap

\* the journals of the redundancy analyses: no index; every node declares a
\* parent among the first two nodes or none and lists its children; steps
\* ascend or descend in file order; every node states a plan, or the second of every three has the
\* empty plan and the third has none
RedPlan(i, stated) ==
  IF stated \/ i % 3 = 1 THEN <<"p">> ELSE IF i % 3 = 2 THEN <<>> ELSE NoPlan
RedCodes ==
  {<<"x", "=", "1">>, <<"x", " ", "=", " ", "1">>, <<"x", "=", "2">>, <<"x", "=", "(">>}

InitRed ==
  /\ IdlePipeline
  /\ tIndex = NoIndex
  /\ tShape = "list"
  /\ \E parent \in [1..MaxTreeNodes -> {None, AllIds[1], AllIds[2]}],
        code \in [1..MaxTreeNodes -> RedCodes],
        ascending \in BOOLEAN, stated \in BOOLEAN :
       tNodes = [i \in 1..MaxTreeNodes |->
                  Node(AllIds[i], IF ascending THEN i ELSE MaxTreeNodes + 1 - i,
                       code[i], RedPlan(i, stated), parent[i],
                       SortedIds({AllIds[k] : k \in {m \in 1..MaxTreeNodes :
                                                       parent[m] = AllIds[i]}}),
                       Judg("aligned", LlmReason))]
  /\ tData = <<>>
  /\ tOps = <<>>
  /\ tRed = NoMap
  /\ planReport = NoReport
  /\ tAsked = NoMap

\* ---------------------------------------------------------------- actions
Ran(op, apply, changes, same) ==
  [op |-> op, apply |-> apply, changes |-> changes, same |-> same]

\* judge_journal.main lines 159-162: if node2parent: build_tree_structure(...)
\* (main has left at line 120 when the shape is unknown)
TBuild ==
  /\ Len(tOps) < MaxTreeOps
  /\ tShape # "bad"
  /\ LET after == IF DOMAIN tIndex # {}
                  THEN build_tree_structure(tNodes, tIndex) ELSE tNodes
     IN /\ tNodes' = after
        /\ tOps' = Append(tOps, Ran("build", TRUE, 0, after = tNodes))
  /\ UNCHANGED <<tIndex, tShape, tData, tRed, planReport, tAsked, pvars, dvars>>

\* update_tree_structure.update_journal_file lines 51-52, 60-69 (an
\* unexpected format returns before anything is changed) and 78-147
TUpdate(apply) ==
  /\ Len(tOps) < MaxTreeOps
  /\ IF DOMAIN tIndex = {} \/ tShape = "bad"
     THEN /\ tNodes' = tNodes
          /\ tOps' = Append(tOps, Ran("update", apply, 0, TRUE))
     ELSE LET r == update_journal_file(tNodes, tIndex)
              after == IF apply THEN r.nodes ELSE tNodes
          IN /\ tNodes' = after
             /\ tOps' = Append(tOps, Ran("update", apply, r.changes, after = tNodes))
  /\ UNCHANGED <<tIndex, tShape, tData, tRed, planReport, tAsked, pvars, dvars>>

\* journal_viz_.main line 257: if isinstance(data, dict): data = data.get("nodes", [])
VizData(shape, ns) == IF shape = "bad" THEN <<>> ELSE ns

\* journal_viz_.main lines 255-283; the page is made from data
TViz ==
  /\ Len(tOps) < MaxTreeOps
  /\ tData = <<>>
  /\ tData' = VizResolve(VizData(tShape, tNodes))
  /\ tRed' = analyze_code_redundancy(tData')
  /\ tOps' = Append(tOps, Ran("viz", FALSE, 0, TRUE))
  /\ UNCHANGED <<tIndex, tShape, tNodes, planReport, tAsked, pvars, dvars>>

\* plan_judge.analyze_all_plans lines 107-145, the classifier answering
\* `groups` for each parent it is asked about; an index outside the children
\* raises IndexError before anything is written, and so does node.get on
\* the keys of an object (AttributeError)
PlanJudgeRaises(groups) ==
  \/ tShape # "list"
  \/ \E pid \in DOMAIN groups : ~InRange(groups[pid], PlanChildren(tNodes, pid))
PlanJudge(groups) ==
  /\ planReport' =
       IF PlanJudgeRaises(groups) THEN planReport
       ELSE [written |-> TRUE, judgements |-> all_judgements(tNodes, groups)]
  /\ tAsked' =
       IF tShape # "list" THEN NoMap
       ELSE [pid \in AskedParents(tNodes, groups) |->
               PlanTexts(PlanChildren(tNodes, pid))]

\* plan_judge.py run on the judged journal; `same`: it wrote no report
AnalyzePlans ==
  /\ Len(tOps) < MaxTreeOps
  /\ ~planReport.written
  /\ \E groups \in [PlanParents(tNodes) -> PlanResponses] :
       /\ PlanJudge(groups)
       /\ tOps' = Append(tOps, Ran("plans", FALSE, 0, PlanJudgeRaises(groups)))
  /\ UNCHANGED <<tIndex, tShape, tNodes, tData, tRed, pvars, dvars>>

\* run_plan_judge_all.get_nodes_to_analyze: the ids of the nodes whose
\* children list has more than one entry
get_nodes_to_analyze(shape, ns) ==
  IF shape = "bad" THEN {}
  ELSE {ns[i].id : i \in {k \in 1..Len(ns) :
                            ns[k].children # MissingList /\ Len(ns[k].children) > 1}}

\* run_plan_judge_all.get_analyzed_nodes: the keys of the report, if there
\* is one
get_analyzed_nodes(rep) == IF rep.written THEN DOMAIN rep.judgements ELSE {}

\* run_plan_judge_all.run_plan_judge lines 76-146. plan_judge.py runs in a
\* subprocess; a run that fails writes nothing, so the retries of lines
\* 114-139 leave what the last run leaves, and one run stands for them.
RunPlanJudge(apply) ==
  /\ Len(tOps) < MaxTreeOps
  /\ LET analyzed_nodes == get_analyzed_nodes(planReport)
         nodes_to_analyze == get_nodes_to_analyze(tShape, tNodes)
     IN IF nodes_to_analyze = {} \/ nodes_to_analyze \subseteq analyzed_nodes
        THEN /\ tOps' = Append(tOps, Ran("run_skip", apply, 0, TRUE))
             /\ UNCHANGED <<planReport, tAsked>>
        ELSE IF ~apply
        THEN /\ tOps' = Append(tOps, Ran("run_dry", apply, 0, TRUE))
             /\ UNCHANGED <<planReport, tAsked>>
        ELSE \E groups \in [PlanParents(tNodes) -> PlanResponses] :
               /\ PlanJudge(groups)
               /\ tOps' = Append(tOps, Ran("run_exec", apply, 0, PlanJudgeRaises(groups)))
  /\ UNCHANGED <<tIndex, tShape, tNodes, tData, tRed, pvars, dvars>>

NextTree ==
  \/ TBuild
  \/ \E apply \in BOOLEAN : TUpdate(apply)
  \/ TViz

SpecTree == InitTree /\ [][NextTree]_vars

NextRed ==
  \/ TViz
  \/ AnalyzePlans
  \/ \E apply \in BOOLEAN : RunPlanJudge(apply)

SpecRed == InitRed /\ [][NextRed]_vars

\* ----------------------------------------------------- the diff renderer alone
DiffChars == {"a", "<", NL}
\* the codes handed to the renderer: None, or a text of up to MaxCodeLen
\* characters
DiffCodes == {NoCode} \cup UNION {[1..n -> DiffChars] : n \in 0..MaxCodeLen}

InitDiff ==
  /\ PipelineIdle([p \in Paths |-> NoFile])
  /\ NoTree
  /\ dA \in DiffCodes /\ dB \in DiffCodes
  /\ dOut = NoRender

Render ==
  /\ ~dOut.done
  /\ dOut' = [done |-> TRUE,
              left |-> generate_side_by_side_diff(dA, dB).left,
              right |-> generate_side_by_side_diff(dA, dB).right]
  /\ UNCHANGED <<dA, dB, pvars, tvars>>

NextDiff == Render

SpecDiff == InitDiff /\ [][NextDiff]_vars

\* ================================================================= claims
\* What the running (or last) pass read, and what a pass left behind.
ReadNodes == before[arg].nodes
ReadJudgment(id) ==
  LET i == CHOOSE k \in 1..Len(ReadNodes) : ReadNodes[k].id = id
  IN ReadNodes[i].j
FullEnded == mode = "idle" /\ exit = "saved"
FixEnded == mode = "idle" /\ exit \in {"none_fixed", "partial", "all_fixed"}
NonError(j) == j.kind = "dict" /\ j.status # "error"
Terminal(j) == j.kind = "dict" /\ j.status \in {"aligned", "partial", "deviated", "skipped"}
AllJudged(ns) == \A i \in 1..Len(ns) : NonError(ns[i].j)
PositionIn(ns, id) == CHOOSE k \in 1..Len(ns) : ns[k].id = id
\* a node's fields other than parent and children
Core(n) == <<n.id, n.step, n.code, n.plan, n.j>>
InStepOrder(ns) == \A k \in 1..Len(ns) - 1 : ns[k].step <= ns[k + 1].step
HasJsonExt(path) == \E i \in 1..Len(path) : path[i] = ".json"

\* C1 as stated: a full pass over a journal whose nodes all carry a non-error
\* judgment calls the classifier for no node and writes exactly the node
\* sequence it read (same nodes, same order, same fields).
C1_Original ==
  (FullEnded /\ AllJudged(ReadNodes)) =>
    (called = {} /\ fs[OutputData].nodes = ReadNodes)

\* C1 as amended: such a pass calls the classifier for no node and writes the
\* same nodes with id, step, code, plan and judgment unchanged, in ascending
\* step order with ties in file order; parent and children are unchanged when
\* the journal carries no index, and the written sequence equals the read one
\* when the journal was in step order and carries no index.
C1_Amended ==
  (FullEnded /\ AllJudged(ReadNodes)) =>
    LET w == fs[OutputData].nodes
        r == ReadNodes
        noIndex == DOMAIN before[arg].n2p = {}
    IN /\ called = {}
       /\ Len(w) = Len(r)
       /\ \A i \in 1..Len(r) :
            \E k \in 1..Len(w) :
              /\ Core(w[k]) = Core(r[i])
              /\ noIndex => w[k] = r[i]
       /\ InStepOrder(w)
       /\ \A i, k \in 1..Len(r) :
            (i < k /\ r[i].step = r[k].step) =>
              PositionIn(w, r[i].id) < PositionIn(w, r[k].id)
       /\ (InStepOrder(r) /\ noIndex) => w = r

\* C1 witness: a full pass ended over a fully judged journal that was not in
\* step order and carried an index.
C1_Witness ==
  /\ FullEnded /\ AllJudged(ReadNodes)
  /\ ~InStepOrder(ReadNodes)
  /\ DOMAIN before[arg].n2p # {}
  /\ fs[OutputData].nodes # ReadNodes

C3_OriginalUntouched ==
  (FixEnded /\ failed > 0) => fs[arg] = before[arg]

C10_ThirdAttempt ==
  (/\ pc = "loop" /\ callee # 0 /\ Len(hist) = 3
   /\ hist[1] = "r429" /\ hist[2] = "r429"
   /\ hist[3] \in {"aligned", "deviated", "unknown"}) =>
    /\ nodes[callee].j = Judg(hist[3], LlmReason)
    /\ slept = 1 + 2

\* C10 witness: in a full pass and in a targeted pass, a node was judged on
\* the third call after two rate-limit errors.
C10_Witness ==
  /\ pc = "loop" /\ callee # 0 /\ hist = <<"r429", "r429", "aligned">>
  /\ nodes[callee].j.status = "aligned" /\ mode = "fix"

\* ------------------------------------------------------------ tree claims
LastOp == tOps[Len(tOps)]
\* the last operation rebuilt the judged nodes from a non-empty index
Rebuilt ==
  /\ tOps # <<>>
  /\ DOMAIN tIndex # {}
  /\ \/ LastOp.op = "build"
     \/ LastOp.op = "update" /\ LastOp.apply
Visualised == tOps # <<>> /\ LastOp.op = "viz"
IdsOf(data) == {data[i].id : i \in 1..Len(data)}
NodeOf(data, id) == data[CHOOSE i \in 1..Len(data) : data[i].id = id]
Occurrences(list, id) ==
  IF list = MissingList THEN 0 ELSE Cardinality({k \in 1..Len(list) : list[k] = id})

RECURSIVE ReachesRoot(_, _, _)
ReachesRoot(data, id, fuel) ==
  IF id = SuperRoot THEN TRUE
  ELSE IF fuel = 0 \/ id \notin IdsOf(data) THEN FALSE
  ELSE ReachesRoot(data, NodeOf(data, id).parent_id, fuel - 1)

\* C6 as the specification words it. Whatever the child -> parent data, the
\* visualised parent relation has no cycle among real nodes and every real
\* node reaches SUPER_ROOT by following parent references.
C6_SingleTree ==
  Visualised =>
    \A i \in 2..Len(tData) : ReachesRoot(tData, tData[i].id, Len(tData))

\* C7. build_tree_structure run on its own output with the same index, and
\* update_journal_file run on its own applied output with the same index,
\* leave every node's parent and children as they are, and update_journal_file
\* then reports zero changes.
C7_Idempotent ==
  \A k \in 2..Len(tOps) :
    /\ tOps[k].op \in {"build", "update"}
    /\ tOps[k - 1].op = tOps[k].op
    /\ tOps[k - 1].apply
    => tOps[k].same /\ tOps[k].changes = 0

\* C7's case: an applied update changed relationships, the next one found
\* nothing to change.
C7_Witness ==
  /\ Len(tOps) = 2
  /\ tOps[1].op = "update" /\ tOps[1].apply /\ tOps[1].changes > 1
  /\ tOps[2].op = "update" /\ tOps[2].apply /\ tOps[2].changes = 0
  /\ \E c \in DOMAIN tIndex : tIndex[c] = c

\* ------------------------------------------------------ redundancy claims
\* C8. Every group analyze_code_redundancy emits has at least 2 members, all
\* of them children of the parent the group is keyed by, and a keyed parent
\* has at least one group; nodes A, B, C with B and C children of A and the
\* code x=1 give exactly {A: [[B, C]]}.
C8_Groups ==
  Visualised =>
    /\ \A pid \in DOMAIN tRed :
         /\ Len(tRed[pid]) >= 1
         /\ \A g \in 1..Len(tRed[pid]) :
              /\ Len(tRed[pid][g]) >= 2
              /\ \A m \in 1..Len(tRed[pid][g]) :
                   /\ tRed[pid][g][m] \in IdsOf(tData)
                   /\ NodeOf(tData, tRed[pid][g][m]).parent_id = pid
    /\ ( /\ Len(tNodes) = 3
         /\ tNodes[1].parent = None
         /\ \A i \in 2..3 : tNodes[i].parent = "A" /\ tNodes[i].code = <<"x", "=", "1">> )
       => tRed = [pid \in {"A"} |-> << <<"B", "C">> >>]

\* C8's case: the scenario's journal has been analysed, and A keys one group.
C8_Witness ==
  /\ Visualised
  /\ Len(tNodes) = 3
  /\ tNodes[1].parent = None /\ tNodes[1].code = <<"x", "=", "2">>
  /\ \A i \in 2..3 : tNodes[i].parent = "A" /\ tNodes[i].code = <<"x", "=", "1">>
  /\ DOMAIN tRed = {"A"}

\* C9 as the specification words it. No group of the written plan redundancy
\* report has fewer than 2 members, whatever the classifier answered.
C9_NoSmallGroups ==
  planReport.written =>
    \A pid \in DOMAIN planReport.judgements :
      \A g \in 1..Len(planReport.judgements[pid]) :
        Len(planReport.judgements[pid][g]) >= 2

\* ------------------------------------------------- judgment claims, second part
\* the collection the running (or last) pass works on, as it loaded it: the
\* full pass in step order, the targeted pass in file order
FullPass == arg = InputJson
LoadedNodes == IF FullPass THEN SortByStep(ReadNodes) ELSE ReadNodes
\* the positions the pass has judged so far: visited and not skipped over
JudgedPositions ==
  IF nodes = <<>> THEN {}
  ELSE IF FullPass
  THEN {i \in 1..idx - 1 : ~NonError(LoadedNodes[i].j)}
  ELSE {targets[k] : k \in 1..idx - 1}
\* the code of the node just before position i of the loaded collection
CodeBefore(i) == IF i = 1 THEN NoCode ELSE LoadedNodes[i - 1].code
SameLines(prev, cur) == SplitLines(IF prev = NoCode THEN <<>> ELSE prev) = SplitLines(cur)
OnlyWhiteSpace(t) == {t[k] : k \in 1..Len(t)} \subseteq {" ", NL}

\* C11. In both passes a node that is judged gets {skipped, "No meaningful
\* code changes or plan."} without a classifier call exactly when the diff of
\* the previous code and its code is empty or its plan is blank; otherwise the
\* classifier is called for it. (The previous code is the code of the node
\* before it in the loaded collection.)
C11_SkipRule ==
  \A i \in JudgedPositions :
    LET nothingToJudge ==
          SameLines(CodeBefore(i), LoadedNodes[i].code) \/ OnlyWhiteSpace(LoadedNodes[i].plan)
    IN /\ nothingToJudge <=> (nodes[i].j = Skipped /\ i \notin called)
       /\ ~nothingToJudge <=> i \in called

\* C11's case: a pass has skipped one node for its blank plan though its code
\* changed, skipped another for its unchanged lines, and called the classifier
\* for none of them.
C11_Witness ==
  /\ FullEnded /\ Len(nodes) = 2 /\ JudgedPositions = {1, 2} /\ called = {}
  /\ nodes[1].plan = <<" ">> /\ nodes[1].code = <<"a">> /\ nodes[1].j = Skipped
  /\ nodes[2].plan = <<"p">> /\ nodes[2].code = <<"a", NL>> /\ nodes[2].j = Skipped

\* every call made for the node last called for ended in a rate-limit error,
\* and there were as many as the retry loops allow
Exhausted ==
  /\ callee # 0 /\ pc = "loop"
  /\ \A k \in 1..Len(hist) : hist[k] = "r429"
  /\ Len(hist) = IF FullPass THEN 3 ELSE 9

\* C12. When every retry for a node ended in a rate-limit error, the node's
\* judgment is an error whose reason is the rate-limit error's text (full
\* pass) or "Max retries exceeded for rate limit" (targeted pass), the pass
\* has not aborted, and it has moved on past the node.
C12_Exhaustion ==
  Exhausted =>
    /\ nodes[callee].j.kind = "dict" /\ nodes[callee].j.status = "error"
    /\ nodes[callee].j.reason = IF FullPass THEN RateLimitText ELSE MaxRetriesReason
    /\ exit \notin {"crash", "format_error"}
    /\ IF FullPass THEN idx > callee
       ELSE \E k \in 1..idx - 1 : targets[k] = callee
    /\ mode = "idle" => exit \in {"saved", "none_fixed", "partial", "all_fixed"}

\* C12's case: a targeted pass recorded the exhaustion for one node and went
\* on to fix a later one.
C12_Witness ==
  /\ Exhausted /\ ~FullPass /\ FixEnded
  /\ \E k \in 1..Len(targets) : targets[k] > callee /\ NonError(nodes[targets[k]].j)
  /\ \E k \in 1..Len(targets) : targets[k] = callee

\* --------------------------------------------------------------- diff claim
\* C13. Whatever the two codes, null included, the left and the right column
\* rendered by generate_side_by_side_diff have the same number of rows.
C13_Parity == dOut.done => Len(dOut.left) = Len(dOut.right)

\* C13's case: a null code against a text of two lines, and a text against a
\* similar one, rendered with rows on both sides.
C13_Witness ==
  /\ dOut.done /\ Len(dOut.left) >= 2
  /\ \/ dA = NoCode /\ dB = <<"a", NL, "<">>
     \/ dA = <<"a", "<">> /\ dB = <<"a">>

\* ------------------------------------------------- redundancy claims, second part
PlansRan == tOps # <<>> /\ LastOp.op = "plans"

\* C14 as the specification words it. Whatever the classifier answered for a
\* parent, a call failure or a malformed answer included, the run of
\* analyze_all_plans ends with the redundancy report written.
C14_ReportWritten == PlansRan => planReport.written

\* ------------------------------------------------------------- format claim
\* C15 as the specification words it. A component handed a file whose top
\* level is neither a list of nodes nor an object with a nodes field fails
\* without producing output: the passes write nothing, the visualiser makes
\* no page.
C15_VizRejects == tShape = "bad" => tData = <<>>

\* ------------------------------------------------ judgment claims, third part
JudgmentStatuses == {"aligned", "partial", "deviated", "skipped", "error"}

\* C16 as the specification words it. After a pass has written its result,
\* every node's judgment is an object whose status is aligned, partial,
\* deviated, skipped or error, whatever the classifier returned.
C16_StatusSet ==
  (mode = "idle" /\ wrote # NoPath) =>
    \A k \in 1..Len(fs[wrote].nodes) :
      /\ fs[wrote].nodes[k].j.kind = "dict"
      /\ fs[wrote].nodes[k].j.status \in JudgmentStatuses

\* the code of the last node among the first n of ns whose judgment is no
\* error, None when there is none
RECURSIVE LastGoodCode(_, _)
LastGoodCode(ns, n) ==
  IF n = 0 THEN NoCode
  ELSE IF NonError(ns[n].j) THEN ns[n].code
  ELSE LastGoodCode(ns, n - 1)

\* C17 as the specification words it. Throughout a full pass the previous
\* code is the code of the most recently visited node whose judgment did not
\* error: a node just recorded as error does not become the previous code.
C17_PrevCodeSkipsErrors ==
  (mode = "full" /\ pc = "loop") => prevCode = LastGoodCode(nodes, idx - 1)

\* the node the targeted pass handled last
LastTarget == IF pc = "call" THEN targets[idx] ELSE targets[idx - 1]

\* C18 as the specification words it. In a targeted pass the previous code a
\* node is re-judged against is the code of the nearest node before it whose
\* judgment is no error (as loaded, or as re-judged so far), never the code
\* of a node in error.
C18_PrevCodeNoError ==
  (~FullPass /\ targets # <<>> /\ (pc = "call" \/ idx > 1)) =>
    prevCode \in {LastGoodCode(ReadNodes, LastTarget - 1),
                  LastGoodCode(nodes, LastTarget - 1)}

\* C19 as the specification words it. In both passes the classifier is called
\* at most 3 times for a node.
C19_AtMostThreeCalls == Len(hist) <= 3

\* ----------------------------------------------------- tree claims, second part
\* the parent a node declares, under parent_id or else under parent
DeclaredParent(n) ==
  IF n.parent_id \notin {Missing, None} THEN n.parent_id ELSE n.parent

\* C20. With no child -> parent index, the visualiser hangs every node whose
\* declared parent (under parent_id or parent) is missing, null or no loaded
\* id under SUPER_ROOT and keeps every other declared parent, and SUPER_ROOT
\* is there as the only node with a null parent reference.
C20_NoIndex ==
  (Visualised /\ DOMAIN tIndex = {} /\ tShape # "bad") =>
    /\ Len(tData) = Len(tNodes) + 1
    /\ \A i \in 1..Len(tNodes) :
         /\ tData[i + 1].id = tNodes[i].id
         /\ IF DeclaredParent(tNodes[i]) \in IdsOf(tNodes)
            THEN tData[i + 1].parent_id = DeclaredParent(tNodes[i])
            ELSE tData[i + 1].parent_id = SuperRoot
    /\ {i \in 1..Len(tData) : tData[i].parent_id \in {None, Missing}} = {1}
    /\ {i \in 1..Len(tData) : tData[i].id = SuperRoot} = {1}

\* C20's case: no index; in the old format one node declares a parent that is
\* no loaded id and the others declare none, and all hang under SUPER_ROOT.
C20_Witness ==
  /\ Visualised /\ DOMAIN tIndex = {} /\ Len(tOps) = 1 /\ Len(tNodes) >= 3
  /\ tNodes[2].parent_id = Dangling /\ tNodes[1].parent_id = None
  /\ tNodes[1].parent = Missing
  /\ \A i \in 2..Len(tData) : tData[i].parent_id = SuperRoot

\* ----------------------------------------------------- tree claims, third part
\* the parent the index gives a node: its entry, null when it has none
IndexParent(id) == IF id \in DOMAIN tIndex THEN tIndex[id] ELSE None

\* C21 as the specification words it. Once build_tree_structure has run with
\* a non-empty index, every node's parent is its index entry (null when it has
\* none) and its children are the sorted ids mapped to it, whatever the node
\* held before, and the tree the visualiser resolves from the nodes hangs
\* every node under its index parent (under SUPER_ROOT when that is null or
\* no loaded node).
C21_IndexAuthoritative ==
  (DOMAIN tIndex # {} /\ tOps # <<>> /\ tOps[1].op = "build") =>
    /\ \A i \in 1..Len(tNodes) :
         /\ tNodes[i].parent = IndexParent(tNodes[i].id)
         /\ tNodes[i].children =
              SortedIds({c \in DOMAIN tIndex : tIndex[c] = tNodes[i].id})
    /\ Visualised =>
         \A i \in 1..Len(tNodes) :
           tData[i + 1].parent_id =
             IF IndexParent(tNodes[i].id) \in IdsOf(tNodes)
             THEN IndexParent(tNodes[i].id) ELSE SuperRoot

\* ------------------------------------------------- redundancy claims, third part
\* the groups analyze_code_redundancy emitted for a parent
GroupsOf(pid) == IF pid \in DOMAIN tRed THEN tRed[pid] ELSE <<>>
InGroup(group, id) == \E m \in 1..Len(group) : group[m] = id

\* C22. For every real parent with at least 2 children, two children are in
\* the same emitted group exactly when their fingerprints (the layout-free
\* dump of the syntax tree, or the text when it does not parse) are equal; so
\* no child with an equal sibling is left out, and the groups of one parent
\* are pairwise disjoint and list no child twice.
C22_Fingerprints ==
  Visualised =>
    \A pid \in IdsOf(tData) \ {SuperRoot} :
      LET kids == {i \in 2..Len(tData) : tData[i].parent_id = pid}
          groups == GroupsOf(pid)
      IN Cardinality(kids) >= 2 =>
           /\ \A i, k \in kids :
                i # k =>
                  ((\E g \in 1..Len(groups) :
                      InGroup(groups[g], tData[i].id) /\ InGroup(groups[g], tData[k].id))
                   <=> get_ast_logic(tData[i].code) = get_ast_logic(tData[k].code))
           /\ \A g, h \in 1..Len(groups) :
                g # h => \A m \in 1..Len(groups[g]) : ~InGroup(groups[h], groups[g][m])
           /\ \A g \in 1..Len(groups) :
                \A m, n \in 1..Len(groups[g]) : m # n => groups[g][m] # groups[g][n]

\* C22's case: A has three children; two differ in layout only and are
\* grouped, the third does not parse and is in no group.
C22_Witness ==
  /\ Visualised /\ Len(tData) = 4
  /\ \A i \in 2..4 : tData[i].parent_id = "A"
  /\ tData[2].code = <<"x", "=", "(">>
  /\ tData[3].code = <<"x", "=", "1">>
  /\ tData[4].code = <<"x", " ", "=", " ", "1">>
  /\ tRed = [pid \in {"A"} |-> << <<"B", "C">> >>]

\* ------------------------------------------------ judgment claims, fourth part
\* some file holds node id with judgment j
Persisted(id, j) ==
  \E p \in Paths :
    \E k \in 1..Len(fs[p].nodes) : fs[p].nodes[k].id = id /\ fs[p].nodes[k].j = j

\* C23 as the specification words it. When a full pass is interrupted after
\* it has judged some nodes, the judgments it has made so far are in
\* persisted storage (where a later run can find them and skip those nodes).
C23_Incremental ==
  (FullPass /\ mode = "idle" /\ exit = "crash") =>
    \A i \in 1..idx - 1 :
      nodes[i].j # ReadJudgment(nodes[i].id) => Persisted(nodes[i].id, nodes[i].j)

\* a full pass over a list of nodes or an object with a nodes field is over
FullOver == FullPass /\ passes > 0 /\ mode = "idle" /\ exit # "format_error"
Carries(n) == n.j.kind = "dict"

\* C24 as the specification words it. A full pass over a well-formed journal
\* ends with every node carrying a judgment and with the complete node
\* collection written to journal_with_judgements.json, once, after the last
\* node was processed.
C24_WrittenOnce ==
  /\ FullOver =>
       /\ exit = "saved" /\ wrote = OutputData
       /\ idx = Len(nodes) + 1
       /\ \A i \in 1..Len(nodes) : Carries(nodes[i])
       /\ fs[OutputData].nodes = nodes
       /\ Len(nodes) = Len(ReadNodes)
  /\ (FullPass /\ mode = "full") => fs = before

\* ------------------------------------------------ redundancy claims, fourth part
\* the step numbers of the nodes that name pid as their parent
ChildSteps(pid) == {tNodes[i].step : i \in {k \in 1..Len(tNodes) : tNodes[k].parent = pid}}
Ascends(q) == \A m \in 1..Len(q) - 1 : q[m] <= q[m + 1]

\* C25. In the written plan redundancy report every group under a parent
\* holds only step numbers of nodes that name that parent, every group is in
\* ascending order, and every parent in the report has at least one group and
\* at least 2 children.
C25_ReportGroups ==
  planReport.written =>
    \A pid \in DOMAIN planReport.judgements :
      LET step_groups == planReport.judgements[pid]
      IN /\ Len(step_groups) >= 1
         /\ Cardinality({k \in 1..Len(tNodes) : tNodes[k].parent = pid}) >= 2
         /\ \A g \in 1..Len(step_groups) :
              /\ Ascends(step_groups[g])
              /\ \A m \in 1..Len(step_groups[g]) : step_groups[g][m] \in ChildSteps(pid)

\* C25's case: B and C, children of A, come in descending step order and the
\* report lists their steps in ascending order under A.
C25_Witness ==
  /\ planReport.written
  /\ tNodes[2].parent = "A" /\ tNodes[3].parent = "A" /\ tNodes[1].parent = None
  /\ tNodes[2].step = 2 /\ tNodes[3].step = 1
  /\ planReport.judgements = [pid \in {"A"} |-> << <<1, 2>> >>]

\* a plan that is missing or the empty string
EmptyPlan(plan) == plan \in {NoPlan, <<>>}

\* C26 as the specification words it. For every parent the classifier was
\* asked about, the list of plans handed over has one entry per child, in the
\* children's order, and the entry of a child whose plan is missing or the
\* empty string is the placeholder "No plan provided".
C26_Placeholder ==
  PlansRan =>
    \A pid \in DOMAIN tAsked :
      LET children == PlanChildren(tNodes, pid)
      IN /\ Len(tAsked[pid]) = Len(children)
         /\ \A k \in 1..Len(children) :
              tAsked[pid][k] = IF EmptyPlan(children[k].plan) THEN Placeholder
                               ELSE children[k].plan

\* ------------------------------------------------- judgment claims, fifth part
\* a targeted pass is running or has ended
FixPass == ~FullPass /\ passes > 0
\* n is r, but for the judgment when r's judgment was an error
SameButJudgment(n, r) ==
  IF StatusOf(r.j) = "error" THEN [n EXCEPT !.j = r.j] = r ELSE n = r
FrameKept(ns) ==
  /\ Len(ns) = Len(ReadNodes)
  /\ \A i \in 1..Len(ReadNodes) : SameButJudgment(ns[i], ReadNodes[i])

\* C27. A targeted pass changes nothing but the judgment of the nodes read
\* with an error judgment: the collection in memory and the one it writes
\* hold the nodes it read, in the same order, every other node and every
\* other field unchanged; over a journal without error judgments it calls the
\* classifier for no node and writes no file.
C27_FixFrame ==
  FixPass =>
    /\ exit # "format_error" => FrameKept(nodes)
    /\ (mode = "idle" /\ wrote # NoPath) =>
         /\ FrameKept(fs[wrote].nodes)
         /\ \A p \in Paths \ {wrote} : fs[p] = before[p]
    /\ identify_error_entries(ReadNodes) = <<>> =>
         (called = {} /\ wrote = NoPath /\ fs = before)

\* C27's case: a targeted pass re-judged the two error entries of a journal
\* of three nodes by calling the classifier and wrote the journal back; the
\* node between them is as it was read.
C27_Witness ==
  /\ FixPass /\ FixEnded /\ exit = "all_fixed" /\ wrote = arg
  /\ targets = <<1, 3>> /\ called # {}
  /\ fs[wrote].nodes[2] = ReadNodes[2]
  /\ fs[wrote].nodes[1].j # ReadNodes[1].j

\* C28 as the specification words it. The file a targeted pass writes has the
\* top-level shape of the journal it read: a bare list of nodes stays a bare
\* list, an object with a nodes field stays such an object.
C28_ShapeKept ==
  (FixPass /\ mode = "idle" /\ wrote # NoPath) => fs[wrote].shape = before[arg].shape

\* C29. A call of the classifier that raises an error whose text has no "429"
\* is the last call made for the node: the node's judgment is an error with
\* that text as its reason, and when it was the first call for the node
\* there was exactly one call and no back-off sleep.
C29_NoRetry ==
  callee # 0 =>
    \A k \in 1..Len(hist) :
      (hist[k] = "rOther" /\ ~Has429(ExcText(hist[k]))) =>
        /\ k = Len(hist) /\ pc = "loop"
        /\ nodes[callee].j = Judg("error", ExcText(hist[k]))
        /\ k = 1 => slept = 0

\* C29's case: in a targeted pass the first call for a node raised an error
\* that is no rate limit, and the node was recorded as error with no sleep.
C29_Witness ==
  /\ mode = "fix" /\ pc = "loop" /\ callee # 0
  /\ hist = <<"rOther">> /\ slept = 0
  /\ nodes[callee].j = Judg("error", OtherErrorText)
  /\ failed = 1

\* ------------------------------------------------- redundancy claims, fifth part
\* plan_judge ran to its end and wrote its report
Completed(r) == r.op \in {"plans", "run_exec"} /\ ~r.same
IsRunPlanJudge(r) == r.op \in {"run_skip", "run_dry", "run_exec"}

\* C30 as the specification words it. When plan_judge has completed on a
\* judged journal in which some node has more than one child, the next
\* run_plan_judge on that journal skips it as already analyzed and does not
\* execute plan_judge (nor report that it would).
C30_SkipsAnalyzed ==
  \A k \in 2..Len(tOps) :
    (/\ Completed(tOps[k - 1])
     /\ IsRunPlanJudge(tOps[k])
     /\ get_nodes_to_analyze(tShape, tNodes) # {})
    => tOps[k].op = "run_skip"

====
